---- MODULE Spec2Model ----
(***************************************************************************)
(* ESPN MCP server: the ESPN query layer (espn-api.js) with its module-    *)
(* level cache, the callers that render its results, the clear-cache       *)
(* endpoint, and the traditional-stats cache of stats.js.                  *)
(*                                                                         *)
(* Time is in milliseconds, as Date.now() gives it.  JavaScript strings    *)
(* whose case or whitespace matters are sequences of one-character         *)
(* strings; null/undefined is the record Null.                             *)
(***************************************************************************)
EXTENDS Integers, Sequences, FiniteSets, TLC

VARIABLES
  now,        \* the wall clock, Date.now()
  cache,      \* espn-api.js: const cache = new Map()   key -> {data, timestamp}
  pc,         \* per request: "idle", or "fetching" while it awaits fetchESPN
  call,       \* per request: the arguments of the query it is running
  ret,        \* what the query that returned in the last step handed to its caller
  setSince,   \* per request: a setCache for its key ran since it started
  voided,     \* per key without a stored result since: the failure or clear that left it so
  lastGame,   \* what the last successful getCurrentGame returned, and when
  calls,      \* number of queries started so far
  got,        \* the last bare getCached call and its result
  traditionalCache, \* stats.js: const traditionalCache = new Map()  key -> {timestamp, data}
  sent,       \* formatter.js: the game last formatted and the text made of it
  req,        \* per request: the POST /mcp request whose tool handler it runs
  out         \* the POST /mcp request answered in the last step and what was sent

vars == <<now, cache, pc, call, ret, setSince, voided, lastGame, calls, got,
          traditionalCache, sent, req, out>>

-----------------------------------------------------------------------------
(* Bounds *)

MaxCalls == 3
\* how many of them POST /mcp may answer before anything is awaited
MaxAnswers == 2

-----------------------------------------------------------------------------
(* Values *)

Null == [null |-> TRUE]

DAY  == 24 * 60 * 60 * 1000

\* CACHE_DURATION
LIVE_GAME      == 60 * 1000
COMPLETED_GAME == 24 * 60 * 60 * 1000
SCHEDULE       == 24 * 60 * 60 * 1000
RANKINGS       == 24 * 60 * 60 * 1000
SCOREBOARD     == 5 * 60 * 1000

\* the TTLs the documentation of the adaptive cache gives
DOC_SCOREBOARD_LIVE   == 60 * 1000
DOC_SCOREBOARD_NOLIVE == 15 * 60 * 1000
DOC_UPCOMING_GAME     == 6 * 60 * 60 * 1000

\* as it would be if the window were fourteen days
LOOKBACK_FOURTEEN == 14 * 24 * 60 * 60 * 1000

\* getCurrentGame: how far back a completed game may lie
LOOKBACK == 7 * 24 * 60 * 60 * 1000

-----------------------------------------------------------------------------
(* Strings *)

Uppers == <<"A", "B", "C", "F", "O", "P", "T", "U">>
Lowers == <<"a", "b", "c", "f", "o", "p", "t", "u">>

toLowerChar(c) ==
  IF \E i \in DOMAIN Uppers : Uppers[i] = c
  THEN Lowers[CHOOSE i \in DOMAIN Uppers : Uppers[i] = c]
  ELSE c

toLowerCase(s) == [i \in DOMAIN s |-> toLowerChar(s[i])]

RECURSIVE trimStart(_)
trimStart(s) ==
  IF s # <<>> /\ Head(s) = " " THEN trimStart(Tail(s)) ELSE s

RECURSIVE trimEnd(_)
trimEnd(s) ==
  IF s # <<>> /\ s[Len(s)] = " " THEN trimEnd(SubSeq(s, 1, Len(s) - 1)) ELSE s

trim(s) == trimEnd(trimStart(s))

Football   == <<"f", "o", "o", "t", "b", "a", "l", "l">>
FootballUC == <<"F", "o", "o", "t", "b", "a", "l", "l">>
Basketball == <<"b", "a", "s", "k", "e", "t", "b", "a", "l", "l">>
PollAP     == <<"a", "p">>
PollAPUC   == <<"A", "P">>
Day0Str    == <<"2", "0", "2", "5", "1", "1", "0", "1">>
Day1Str    == <<"2", "0", "2", "5", "1", "1", "0", "2">>

\* TEAM_MAP of espn-api.js, the entries the model uses
TEAM_MAP ==
  [n \in {<<"o", "u">>, <<"u", "t">>} |->
     IF n = <<"o", "u">> THEN "201" ELSE "251"]

getTeamId(teamName) ==
  LET normalized == trim(toLowerCase(teamName))
  IN  IF normalized \in DOMAIN TEAM_MAP THEN [id |-> TEAM_MAP[normalized]] ELSE Null

\* new Date().toISOString().split('T')[0].replace(/-/g, '')
todayStr(t) == IF t \div DAY = 0 THEN Day0Str ELSE Day1Str

-----------------------------------------------------------------------------
(* The cache *)

\* getCached as it would be if an entry expired on reaching maxAge
getCachedDataStrict(c, key, maxAge, t) ==
  IF key \notin DOMAIN c THEN Null
  ELSE IF t - c[key].timestamp >= maxAge THEN Null
  ELSE c[key].data

getCachedData(c, key, maxAge, t) ==
  IF key \notin DOMAIN c THEN Null
  ELSE IF t - c[key].timestamp > maxAge THEN Null
  ELSE c[key].data

\* getCached as it would be if an expired entry were left in the map
getCachedMapKeep(c, key, maxAge, t) == c

getCachedMap(c, key, maxAge, t) ==
  IF key \in DOMAIN c /\ t - c[key].timestamp > maxAge
  THEN [k \in DOMAIN c \ {key} |-> c[k]]
  ELSE c

\* setCache as it would be if an existing entry were kept
setCacheKeep(c, key, data, t) ==
  [k \in DOMAIN c \cup {key} |->
     IF k \in DOMAIN c THEN c[k] ELSE [data |-> data, timestamp |-> t]]

setCache(c, key, data, t) ==
  [k \in DOMAIN c \cup {key} |->
     IF k = key THEN [data |-> data, timestamp |-> t] ELSE c[k]]

\* clearCache as it would be if it only logged
clearCacheKeep(c) == c

clearCache(c) == [k \in {} |-> Null]

-----------------------------------------------------------------------------
(* What upstream can answer *)

Score(n) == [value |-> n]

EvLive ==
  [name |-> "Texas at Oklahoma", date |-> 0 - 60 * 60 * 1000, state |-> "in",
   completed |-> FALSE, competitors |-> TRUE, displayName |-> TRUE,
   homeScore |-> Score(24), awayScore |-> Score(17)]
EvFinal ==
  [name |-> "Oklahoma at Baylor", date |-> 0 - 2 * DAY, state |-> "post",
   completed |-> TRUE, competitors |-> TRUE, displayName |-> TRUE,
   homeScore |-> Score(10), awayScore |-> Score(34)]
EvOld ==
  [name |-> "Kansas at Oklahoma", date |-> 0 - 8 * DAY, state |-> "post",
   completed |-> TRUE, competitors |-> TRUE, displayName |-> TRUE,
   homeScore |-> Score(27), awayScore |-> Score(3)]
EvNext ==
  [name |-> "Oklahoma at TCU", date |-> 2 * DAY, state |-> "pre",
   completed |-> FALSE, competitors |-> TRUE, displayName |-> TRUE,
   homeScore |-> Null, awayScore |-> Null]
EvLater ==
  [name |-> "Oklahoma State at Oklahoma", date |-> 9 * DAY, state |-> "pre",
   completed |-> FALSE, competitors |-> TRUE, displayName |-> TRUE,
   homeScore |-> Null, awayScore |-> Null]
\* a second game in progress and a more recent completed game
EvLiveB ==
  [EvLive EXCEPT !.name = "Oklahoma at Iowa State"]
EvFinalLate ==
  [EvFinal EXCEPT !.name = "Oklahoma at Kansas State", !.date = 0 - DAY]
\* a game marked completed and dated a day ahead of the first instant
EvFinalAhead ==
  [EvFinal EXCEPT !.name = "Oklahoma at Houston", !.date = DAY]
\* events that lack a field: a live game without the home score, one whose teams
\* have no displayName, and an event whose competition has no status
EvLiveNoScore == [EvLive EXCEPT !.homeScore = Null]
EvLiveNoName  == [EvLive EXCEPT !.displayName = FALSE]
EvNoStatus    == [EvFinal EXCEPT !.state = "absent", !.completed = FALSE]
\* an event whose competition carries no competitors
EvNextBad == [EvNext EXCEPT !.competitors = FALSE]
EvFinalBad == [EvFinal EXCEPT !.competitors = FALSE]

\* GET .../teams/{id}/schedule, as getTeamSchedule may see it
SchedulePayloads ==
  { [events |-> <<>>],
    [events |-> <<EvOld, EvFinal>>],
    [events |-> <<EvFinal, EvNext, EvLater>>],
    [events |-> <<EvOld, EvNextBad>>] }

\* GET .../teams/{id}/schedule, as getCurrentGame may see it
GamePayloads ==
  { [status |-> "ok"],
    [events |-> <<>>],
    [events |-> <<EvOld, EvNext>>],
    [events |-> <<EvOld, EvFinal, EvNext>>],
    [events |-> <<EvFinal, EvLive, EvNext>>],
    [events |-> <<EvOld, EvFinalBad>>],
    [events |-> <<EvFinal, EvFinalLate, EvOld>>],
    [events |-> <<EvFinalLate, EvLiveB, EvLive>>],
    [events |-> <<EvFinalAhead, EvFinal>>] }

\* GET .../scoreboard?dates=
ScoreboardPayloads ==
  { [events |-> <<>>],
    [events |-> <<EvLive, EvFinal, EvFinal, EvFinal, EvFinal>>],
    [events |-> <<EvFinal, EvOld>>],
    [events |-> <<EvFinal, EvFinalBad>>] }

APName    == <<"A", "P">>
CoachName == <<"C", "P">>

RkAP1     == [name |-> APName,    week |-> 1, ranks |-> <<"201", "251">>]
RkAP2     == [name |-> APName,    week |-> 2, ranks |-> <<"251", "201">>]
RkCoach   == [name |-> CoachName, week |-> 2, ranks |-> <<"201">>]
RkBad     == [name |-> APName,    week |-> 2]

\* GET .../rankings
RankingsPayloads ==
  { [rankings |-> <<>>],
    [rankings |-> <<RkAP1>>],
    [rankings |-> <<RkAP2, RkCoach>>],
    [rankings |-> <<RkBad>>] }

\* payloads with a field missing, as getCurrentGame and getScoreboard may see them
NormPayloads(kind) ==
  CASE kind = "game" ->
         { [events |-> <<EvLive>>],
           [events |-> <<EvFinal, EvLiveNoScore>>],
           [events |-> <<EvLiveNoName>>],
           [events |-> <<EvNoStatus, EvFinal>>],
           [events |-> <<EvNoStatus>>] }
    [] kind = "scoreboard" ->
         { [events |-> <<EvLive, EvFinal>>],
           [events |-> <<EvLiveNoScore, EvFinal>>],
           [events |-> <<EvFinal, EvLiveNoName>>],
           [events |-> <<EvNoStatus, EvFinal>>] }
    [] OTHER -> {}

Payloads(kind) ==
  CASE kind = "scoreboard" -> ScoreboardPayloads
    [] kind = "rankings"   -> RankingsPayloads
    [] kind = "schedule"   -> SchedulePayloads
    [] kind = "game"       -> GamePayloads
    [] OTHER               -> {}

-----------------------------------------------------------------------------
(* The queries of espn-api.js, from the payload on *)

Err(msg) == [error |-> TRUE, message |-> msg]

Take(s, n) == SubSeq(s, 1, IF Len(s) < n THEN Len(s) ELSE n)

Includes(s, sub) ==
  \E i \in 0..(Len(s) - Len(sub)) : SubSeq(s, i + 1, i + Len(sub)) = sub

NoEvents(data) == "events" \notin DOMAIN data \/ data.events = <<>>

\* name: team.displayName, undefined when the payload has none
Side(e, score) == [name |-> IF e.displayName THEN [text |-> e.name] ELSE Null,
                   score |-> score]

\* as it would be if the first completed game of the last seven days were taken
selectCurrentGameFirst(events, t) ==
  LET live   == {i \in DOMAIN events : events[i].state = "in"}
      recent == {i \in DOMAIN events :
                   /\ events[i].date <= t
                   /\ events[i].date >= t - LOOKBACK
                   /\ events[i].completed}
  IN  IF live # {}
      THEN events[CHOOSE i \in live : \A j \in live : i <= j]
      ELSE IF recent # {}
      THEN events[CHOOSE i \in recent : \A j \in recent : i <= j]
      ELSE Null

\* the event getCurrentGame picks: the first one in progress, else the latest
\* completed one of the last seven days
selectCurrentGame(events, t) ==
  LET live   == {i \in DOMAIN events : events[i].state = "in"}
      recent == {i \in DOMAIN events :
                   /\ events[i].date <= t
                   /\ events[i].date >= t - LOOKBACK
                   /\ events[i].completed}
  IN  IF live # {}
      THEN events[CHOOSE i \in live : \A j \in live : i <= j]
      ELSE IF recent # {}
      THEN events[CHOOSE i \in recent : \A j \in recent :
                    \/ events[i].date > events[j].date
                    \/ events[i].date = events[j].date /\ i <= j]
      ELSE Null

getCurrentGameResult(c, data, t) ==
  IF NoEvents(data)
  THEN [outcome |-> "notfound", value |-> Err("No games found")]
  ELSE LET currentGame == selectCurrentGame(data.events, t)
       IN  IF currentGame = Null
           THEN [outcome |-> "notfound", value |-> Err("No recent game found")]
           ELSE IF ~currentGame.competitors
           THEN [outcome |-> "failed", value |-> Err("Failed to get game data")]
           ELSE [outcome |-> "ok",
                 value |-> [game |->
                   [name        |-> currentGame.name,
                    date        |-> currentGame.date,
                    isLive      |-> currentGame.state = "in",
                    isCompleted |-> currentGame.completed,
                    homeTeam    |-> Side(currentGame, currentGame.homeScore),
                    awayTeam    |-> Side(currentGame, currentGame.awayScore)]]]

scheduleGame(e) == [date |-> e.date, opponent |-> e.name]

getTeamScheduleResult(c, data, t) ==
  IF NoEvents(data)
  THEN [outcome |-> "notfound", value |-> Err("No schedule found")]
  ELSE LET Upcoming(e) == e.date >= t
           sliced == Take(SelectSeq(data.events, Upcoming), c.limit)
       IN  IF \E i \in DOMAIN sliced : ~sliced[i].competitors
           THEN [outcome |-> "failed", value |-> Err("Failed to get schedule")]
           ELSE [outcome |-> "ok",
                 value |-> [team  |-> c.team,
                            games |-> [i \in DOMAIN sliced |-> scheduleGame(sliced[i])]]]

scoreboardGame(e) ==
  [name     |-> e.name,
   isLive   |-> e.state = "in",
   homeTeam |-> Side(e, e.homeScore),
   awayTeam |-> Side(e, e.awayScore)]

getScoreboardResult(c, data, t) ==
  IF NoEvents(data)
  THEN [outcome |-> "notfound", value |-> Err("No games found")]
  ELSE IF \E i \in DOMAIN data.events :
            ~data.events[i].competitors \/ data.events[i].state = "absent"
  THEN [outcome |-> "failed", value |-> Err("Failed to get scoreboard")]
  ELSE [outcome |-> "ok",
        value |-> [date  |-> c.date,
                   games |-> [i \in DOMAIN data.events |-> scoreboardGame(data.events[i])]]]

getRankingsResult(c, data, t) ==
  IF "rankings" \notin DOMAIN data \/ data.rankings = <<>>
  THEN [outcome |-> "notfound", value |-> Err("No rankings available")]
  ELSE LET rs    == data.rankings
           found == {i \in DOMAIN rs :
                       Includes(toLowerCase(rs[i].name), toLowerCase(c.poll))}
           ranking ==
             IF c.poll # PollAP /\ found # {}
             THEN rs[CHOOSE i \in found : \A j \in found : i <= j]
             ELSE rs[1]
       IN  IF "ranks" \notin DOMAIN ranking
           THEN [outcome |-> "failed", value |-> Err("Failed to get rankings")]
           ELSE [outcome |-> "ok",
                 value |-> [poll  |-> ranking.name,
                            week  |-> ranking.week,
                            teams |-> ranking.ranks]]

queryResult(c, data, t) ==
  CASE c.kind = "game"       -> getCurrentGameResult(c, data, t)
    [] c.kind = "schedule"   -> getTeamScheduleResult(c, data, t)
    [] c.kind = "scoreboard" -> getScoreboardResult(c, data, t)
    [] c.kind = "rankings"   -> getRankingsResult(c, data, t)

fetchError(kind) ==
  CASE kind = "game"       -> Err("Failed to get game data")
    [] kind = "schedule"   -> Err("Failed to get schedule")
    [] kind = "scoreboard" -> Err("Failed to get scoreboard")
    [] kind = "rankings"   -> Err("Failed to get rankings")

\* which queries keep their result in the cache, and for how long
usesCache(kind) == kind \in {"schedule", "scoreboard", "rankings"}

\* as it would be if the catch block stored its error object too
shouldStoreAny(kind, outcome) == usesCache(kind) /\ outcome \in {"ok", "failed"}

\* setCache is reached only past every error return and outside the catch
shouldStore(kind, outcome) == usesCache(kind) /\ outcome = "ok"

\* as it would be if every query used the schedule's duration
maxAgeOfSchedule(kind) == SCHEDULE

\* as it would be if every query used the scoreboard's duration
maxAgeOfScoreboard(kind) == SCOREBOARD

maxAgeOf(kind) ==
  CASE kind = "schedule"   -> SCHEDULE
    [] kind = "scoreboard" -> SCOREBOARD
    [] kind = "rankings"   -> RANKINGS

scheduleKey(teamId, sport) == <<"schedule", "_", teamId, "_">> \o sport
scoreboardKey(sport, dateStr) == <<"scoreboard", "_">> \o sport \o <<"_">> \o dateStr
rankingsKey(sport, poll) == <<"rankings", "_">> \o sport \o <<"_">> \o poll

-----------------------------------------------------------------------------
(* Requests *)

\* request slots; a new request takes the lowest free one
Procs == {1, 2}

NoCall == [kind |-> "none"]
NoRet  == [kind |-> "none", hit |-> FALSE, outcome |-> "none", raced |-> FALSE,
           data |-> Null]
NoGame == [at |-> 0 - 1]
NoGot  == [key |-> <<>>]
NoSent == [text |-> Null]
NoReq  == [request |-> Null]
NoOut  == [endpoint |-> "none", sent |-> <<>>]

\* how a key last lost its entry, as the query starting now finds it: "fetch" (a
\* query for it failed to fetch), "payload" (a query for it could not use the
\* payload), "cleared" (clear-cache removed its entry), "no"
After(key) == IF key \in DOMAIN voided THEN voided[key] ELSE "no"

Call(kind, team, teamId, sport, limit, routeLimit, date, poll, key, caller) ==
  [kind |-> kind, team |-> team, teamId |-> teamId, sport |-> sport,
   limit |-> limit, routeLimit |-> routeLimit, date |-> date, poll |-> poll,
   key |-> key, caller |-> caller, after |-> "no", fetches |-> 0]

\* fetches: how many times the query called fetch
\* data: the payload the query worked on, Null when it had none
\* raced: a setCache for the key ran while the query was in flight
\* prev: what the cache held for the key before the step
\* follows: the caller of the hit for the same key in the step before, if any
Ret(q, c, value, outcome, hit, raced, data) ==
  [kind |-> c.kind, key |-> c.key,
   value |-> value, outcome |-> outcome, hit |-> hit, raced |-> raced, data |-> data,
   prev |-> IF c.key \in DOMAIN cache THEN cache[c.key].data ELSE Null,
   follows |-> IF hit /\ ret.hit /\ ret.key = c.key THEN ret.caller ELSE "none",
   caller |-> IF "caller" \in DOMAIN c THEN c.caller ELSE "tool",
   fetches |-> IF "fetches" \in DOMAIN c THEN c.fetches ELSE 0]

\* as it would be if GET /schedule cut the field the result does have
callerEffectGames(c, value) ==
  IF c.caller = "route" /\ c.kind = "schedule" /\ "games" \in DOMAIN value
  THEN [value EXCEPT !.games = Take(@, c.routeLimit)]
  ELSE value

\* GET /schedule of the REST server cuts schedule.events to its limit, in place,
\* when the object it was handed has that field; every other caller only reads
callerEffect(c, value) ==
  IF c.caller = "route" /\ c.kind = "schedule" /\ "events" \in DOMAIN value
  THEN [value EXCEPT !.events = Take(@, c.routeLimit)]
  ELSE value

\* the object handed to the caller is the object the cache entry holds
deliver(c0, c, value) ==
  IF c.key \in DOMAIN c0
  THEN [c0 EXCEPT ![c.key].data = callerEffect(c, value)]
  ELSE c0

Without(f, k) == [x \in DOMAIN f \ {k} |-> f[x]]
With(f, k, v) == [x \in DOMAIN f \cup {k} |-> IF x = k THEN v ELSE f[x]]

InFlight(p) == pc[p] # "idle"

FreeSlot(q) == pc[q] = "idle" /\ \A p \in Procs : p < q => InFlight(p)

\* the part of a caching query that runs before its first await
StartCached(q, c) ==
  LET cached == getCachedData(cache, c.key, maxAgeOf(c.kind), now)
      cache1 == getCachedMap(cache, c.key, maxAgeOf(c.kind), now)
  IN  /\ FreeSlot(q)
      /\ calls < MaxCalls
      /\ calls' = calls + 1
      /\ setSince' = [setSince EXCEPT ![q] = FALSE]
      /\ IF cached # Null
         THEN /\ cache' = deliver(cache1, c, cached)
              /\ ret' = Ret(q, c, cached, "ok", TRUE, FALSE, Null)
              /\ UNCHANGED <<pc, call>>
         ELSE /\ cache' = cache1
              /\ pc' = [pc EXCEPT ![q] = "fetching"]
              /\ call' = [call EXCEPT ![q] =
                    [c EXCEPT !.after = After(c.key), !.fetches = 1]]
              /\ ret' = NoRet
      /\ UNCHANGED <<now, voided, lastGame, got, traditionalCache, sent>>

UnknownTeam(q, kind, teamName, msg) ==
  /\ FreeSlot(q)
  /\ calls < MaxCalls
  /\ calls' = calls + 1
  /\ ret' = Ret(q, [kind |-> kind, key |-> <<>>, team |-> teamName, limit |-> 0],
                Err(msg), "unknown_team", FALSE, FALSE, Null)
  /\ UNCHANGED <<now, cache, pc, call, setSince, voided, lastGame, got, traditionalCache, sent>>

getCurrentGame(q, teamName, sport) ==
  LET teamId == getTeamId(teamName)
  IN  IF teamId = Null
      THEN UnknownTeam(q, "game", teamName, "Team not found. Try: oklahoma, texas")
      ELSE /\ FreeSlot(q)
           /\ calls < MaxCalls
           /\ calls' = calls + 1
           /\ pc' = [pc EXCEPT ![q] = "fetching"]
           /\ call' = [call EXCEPT ![q] =
                 [Call("game", teamName, teamId.id, sport, 0, 0, <<>>, <<>>, <<>>, "tool")
                    EXCEPT !.fetches = 1]]
           /\ ret' = NoRet
           /\ setSince' = [setSince EXCEPT ![q] = FALSE]
           /\ UNCHANGED <<now, cache, voided, lastGame, got, traditionalCache, sent>>

\* handleGetSchedule passes the caller's limit on; GET /schedule leaves the
\* query's limit at its default and cuts with its own
getTeamSchedule(q, teamName, sport, limit, caller) ==
  LET teamId == getTeamId(teamName)
  IN  IF teamId = Null
      THEN UnknownTeam(q, "schedule", teamName, "Team not found")
      ELSE StartCached(q,
             Call("schedule", teamName, teamId.id, sport,
                  IF caller = "route" THEN 5 ELSE limit, limit, <<>>, <<>>,
                  scheduleKey(teamId.id, sport), caller))

getScoreboard(q, sport, date) ==
  LET dateStr == IF date # <<>> THEN date ELSE todayStr(now)
  IN  StartCached(q,
        Call("scoreboard", <<>>, "", sport, 0, 0, dateStr, <<>>,
             scoreboardKey(sport, dateStr), "tool"))

getRankings(q, sport, poll) ==
  StartCached(q,
    Call("rankings", <<>>, "", sport, 0, 0, <<>>, poll,
         rankingsKey(sport, poll), "tool"))

\* as it would be if a query tried a failed fetch a second time
fetchAttemptsTwo(kind) == 2

\* how many times a query calls fetch before it gives up: fetchESPN rethrows the
\* first failure and every query's catch block returns
fetchAttempts(kind) == 1

\* fetch() rejects, or the response is not ok: fetchESPN throws, the query catches
FetchFail(q) ==
  /\ pc[q] = "fetching"
  /\ IF call[q].fetches < fetchAttempts(call[q].kind)
     THEN /\ call' = [call EXCEPT ![q].fetches = @ + 1]
          /\ ret' = NoRet
          /\ UNCHANGED <<pc, voided>>
     ELSE /\ pc' = [pc EXCEPT ![q] = "idle"]
          /\ ret' = Ret(q, call[q], fetchError(call[q].kind), "failed", FALSE,
                        setSince[q], Null)
          /\ voided' = IF usesCache(call[q].kind) /\ ~setSince[q]
                       THEN With(voided, call[q].key, "fetch") ELSE voided
          /\ call' = [call EXCEPT ![q] = NoCall]
  /\ UNCHANGED <<now, cache, setSince, lastGame, calls, got, traditionalCache, sent>>

\* the response arrives with a 2xx status and the JSON body data, and the query
\* runs from there to its return
FetchOk(q, data) ==
  LET c == call[q]
      r == queryResult(c, data, now)
      stores == shouldStore(c.kind, r.outcome)
  IN  /\ pc[q] = "fetching"
      /\ pc' = [pc EXCEPT ![q] = "idle"]
      /\ ret' = Ret(q, c, r.value, r.outcome, FALSE, setSince[q], data)
      /\ cache' = IF stores
                  THEN deliver(setCache(cache, c.key, r.value, now), c, r.value)
                  ELSE cache
      /\ setSince' = IF stores
                     THEN [p \in Procs |->
                             IF p # q /\ InFlight(p) /\ call[p].key = c.key
                             THEN TRUE ELSE setSince[p]]
                     ELSE setSince
      /\ voided' = IF stores THEN Without(voided, c.key)
                   ELSE IF r.outcome = "failed" /\ usesCache(c.kind) /\ ~setSince[q]
                   THEN With(voided, c.key, "payload")
                   ELSE voided
      /\ lastGame' = IF c.kind = "game" /\ r.outcome = "ok"
                     THEN [teamId |-> c.teamId, sport |-> c.sport,
                           value |-> r.value, at |-> now]
                     ELSE lastGame
      /\ call' = [call EXCEPT ![q] = NoCall]
      /\ UNCHANGED <<now, calls, got, traditionalCache, sent>>

\* clearESPNCache(), as POST /clear-cache calls it
ClearCache ==
  /\ cache' = clearCache(cache)
  /\ voided' = [k \in DOMAIN voided \cup DOMAIN cache |->
                  IF k \in DOMAIN cache THEN "cleared" ELSE voided[k]]
  /\ ret' = NoRet
  /\ UNCHANGED <<now, pc, call, setSince, lastGame, calls, got, traditionalCache, sent>>

\* the instants the clock is looked at
TimePoints ==
  {0, 1, SCOREBOARD + 1, SCHEDULE + 1}

GameTimePoints ==
  {0, 10 * 1000, LIVE_GAME, LIVE_GAME + 1, 6 * DAY}

Tick(points) ==
  /\ \E t \in points : t > now /\ now' = t
  /\ ret' = NoRet
  /\ UNCHANGED <<cache, pc, call, setSince, voided, lastGame, calls, got, traditionalCache, sent, req, out>>

Teams   == {<<"o", "u">>, <<" ", "O", "U">>, <<"z", "z">>}
Sports  == {Football}
Dates   == {<<>>, Day0Str}
Polls   == {PollAP}
\* who asks for a schedule: team, caller, limit
ScheduleRequests ==
  { <<<<"o", "u">>, "tool", 5>>, <<<<" ", "O", "U">>, "route", 1>>,
    <<<<"z", "z">>, "tool", 5>> }

Init ==
  /\ now = 0
  /\ cache = [k \in {} |-> Null]
  /\ pc = [q \in Procs |-> "idle"]
  /\ call = [q \in Procs |-> NoCall]
  /\ ret = NoRet
  /\ setSince = [q \in Procs |-> FALSE]
  /\ voided = [k \in {} |-> "no"]
  /\ lastGame = NoGame
  /\ calls = 0
  /\ got = NoGot
  /\ traditionalCache = [k \in {} |-> Null]
  /\ sent = NoSent
  /\ req = [q \in Procs |-> NoReq]
  /\ out = NoOut

\* a query called by anything but POST /mcp
Direct(A) == A /\ UNCHANGED <<req, out>>

Respond ==
  \/ \E q \in Procs : Direct(FetchFail(q))
  \/ \E q \in Procs : \E data \in Payloads(call[q].kind) : Direct(FetchOk(q, data))

\* the queries that go through the cache, and the endpoint that clears it
Next ==
  \/ \E q \in Procs, sport \in Sports, r \in ScheduleRequests :
       Direct(getTeamSchedule(q, r[1], sport, r[3], r[2]))
  \/ \E q \in Procs, sport \in Sports, date \in Dates :
       Direct(getScoreboard(q, sport, date))
  \/ \E q \in Procs, sport \in Sports, poll \in Polls :
       Direct(getRankings(q, sport, poll))
  \/ Respond
  \/ Direct(ClearCache)
  \/ Tick(TimePoints)

Spec == Init /\ [][Next]_vars

\* the current-game query, which does not go through the cache
NextGame ==
  \/ \E q \in Procs, team \in Teams, sport \in Sports :
       Direct(getCurrentGame(q, team, sport))
  \/ Respond
  \/ Tick(GameTimePoints)

SpecGame == Init /\ [][NextGame]_vars

\* the four ESPN queries side by side
QueryTimePoints == {0, SCOREBOARD + 1}

NextQueries ==
  \/ \E q \in Procs, team \in {<<"o", "u">>, <<"z", "z">>} :
       Direct(getCurrentGame(q, team, Football))
  \/ \E q \in Procs : Direct(getTeamSchedule(q, <<"o", "u">>, Football, 5, "tool"))
  \/ \E q \in Procs : Direct(getScoreboard(q, Football, <<>>))
  \/ \E q \in Procs : Direct(getRankings(q, Football, PollAP))
  \/ Respond
  \/ Tick(QueryTimePoints)

SpecQueries == Init /\ [][NextQueries]_vars

\* getCurrentGame and getScoreboard on payloads with fields missing
NextNorm ==
  \/ \E q \in Procs : Direct(getCurrentGame(q, <<"o", "u">>, Football))
  \/ \E q \in Procs : Direct(getScoreboard(q, Football, <<>>))
  \/ \E q \in Procs : Direct(FetchFail(q))
  \/ \E q \in Procs : \E data \in NormPayloads(call[q].kind) : Direct(FetchOk(q, data))
  \/ Tick(QueryTimePoints)

SpecNorm == Init /\ [][NextNorm]_vars

-----------------------------------------------------------------------------
(* stats.js: getTraditionalStats and its cache *)

TTL_MS == 6 * 60 * 60 * 1000

\* new Date().getFullYear()
currentYear == 2025

\* a year as the template string prints it
yearStr(year) == ToString(year)

makeKey(team, year) == toLowerCase(team) \o <<"_", yearStr(year)>>

\* as it would be if an entry were fresh up to and including TTL_MS
isFreshInclusive(entry, t) == entry # Null /\ t - entry.timestamp <= TTL_MS

isFresh(entry, t) == entry # Null /\ t - entry.timestamp < TTL_MS

\* what the three CFBD endpoints can answer, put together by
\* fetchFullTraditionalStats; year 0 stands for a year not given
StatsPayloads == {10, 20}
fetchFullTraditionalStats(team, year, payload) ==
  [team |-> team, year |-> year, season_team_stats |-> payload,
   games_team |-> payload + 1]

subsetOf(full, subset) ==
  IF subset = "season"
  THEN [team |-> full.team, year |-> full.year,
        season_team_stats |-> full.season_team_stats]
  ELSE full

StatsRet(c, value, outcome, hit) ==
  [kind |-> "stats", key |-> c.key, value |-> value, outcome |-> outcome,
   hit |-> hit, raced |-> FALSE, data |-> Null, prev |-> Null,
   follows |-> "none", caller |-> "tool", fetches |-> c.fetches]

getTraditionalStats(q, team, year, subset) ==
  LET key   == makeKey(team, IF year # 0 THEN year ELSE currentYear)
      entry == IF key \in DOMAIN traditionalCache THEN traditionalCache[key] ELSE Null
      c     == [kind |-> "stats", team |-> team, year |-> year, subset |-> subset,
                key |-> key, fetches |-> 0]
  IN  /\ FreeSlot(q)
      /\ calls < MaxCalls
      /\ calls' = calls + 1
      /\ IF team = <<>>
         THEN /\ ret' = StatsRet(c, Err("Team is required for traditional stats"),
                                 "thrown", FALSE)
              /\ UNCHANGED <<pc, call>>
         ELSE IF isFresh(entry, now)
         THEN /\ ret' = StatsRet(c, subsetOf(entry.data, subset), "ok", TRUE)
              /\ UNCHANGED <<pc, call>>
         ELSE /\ pc' = [pc EXCEPT ![q] = "fetching"]
              /\ call' = [call EXCEPT ![q] = [c EXCEPT !.fetches = 1]]
              /\ ret' = NoRet
      /\ UNCHANGED <<now, cache, setSince, voided, lastGame, got, traditionalCache, sent, req, out>>

\* one of the three axios calls rejects: the catch block throws
StatsFail(q) ==
  /\ pc[q] = "fetching"
  /\ call[q].kind = "stats"
  /\ pc' = [pc EXCEPT ![q] = "idle"]
  /\ ret' = StatsRet(call[q], Err("Failed to fetch traditional stats"), "thrown", FALSE)
  /\ call' = [call EXCEPT ![q] = NoCall]
  /\ UNCHANGED <<now, cache, setSince, voided, lastGame, calls, got, traditionalCache, sent, req, out>>

\* the three axios calls resolve: the entry is set and the subset returned
StatsOk(q, payload) ==
  LET c    == call[q]
      data == fetchFullTraditionalStats(c.team, c.year, payload)
  IN  /\ pc[q] = "fetching"
      /\ c.kind = "stats"
      /\ pc' = [pc EXCEPT ![q] = "idle"]
      /\ traditionalCache' = With(traditionalCache, c.key, [timestamp |-> now, data |-> data])
      /\ ret' = StatsRet(c, subsetOf(data, c.subset), "ok", FALSE)
      /\ call' = [call EXCEPT ![q] = NoCall]
      /\ UNCHANGED <<now, cache, setSince, voided, lastGame, calls, got, sent, req, out>>

\* clearTraditionalStatsCache
ClearStats ==
  /\ traditionalCache' = [k \in {} |-> Null]
  /\ ret' = NoRet
  /\ UNCHANGED <<now, cache, pc, call, setSince, voided, lastGame, calls, got, sent, req, out>>

StatsTimePoints == {0, TTL_MS - 1, TTL_MS, TTL_MS + 1}
StatsTeams == {<<>>, <<"o", "u">>, <<"O", "U">>}
StatsYears == {0, 2025}
Subsets    == {"all", "season"}

NextStats ==
  \/ \E q \in Procs, team \in StatsTeams, year \in StatsYears, subset \in Subsets :
       getTraditionalStats(q, team, year, subset)
  \/ \E q \in Procs : StatsFail(q)
  \/ \E q \in Procs, payload \in StatsPayloads : StatsOk(q, payload)
  \/ ClearStats
  \/ Tick(StatsTimePoints)

SpecStats == Init /\ [][NextStats]_vars

-----------------------------------------------------------------------------
(* formatter.js: formatGameResponse *)

\* parseInt(score) || 0, the score being a numeric string or absent
parseScore(score) == IF score = Null THEN 0 ELSE score.value

formatLiveGame(game) ==
  LET homeScore == parseScore(game.homeTeam.score)
      awayScore == parseScore(game.awayTeam.score)
      homeLeads == homeScore > awayScore
      margin    == IF homeLeads THEN homeScore - awayScore ELSE awayScore - homeScore
  IN  IF homeScore = awayScore
      THEN [kind |-> "LIVE", verb |-> "tied",
            first |-> game.homeTeam.name, second |-> game.awayTeam.name,
            firstScore |-> homeScore, secondScore |-> awayScore]
      ELSE [kind |-> "LIVE",
            verb |-> IF margin > 20 THEN "dominating"
                     ELSE IF margin > 10 THEN "leading" ELSE "up",
            first  |-> IF homeLeads THEN game.homeTeam.name ELSE game.awayTeam.name,
            second |-> IF homeLeads THEN game.awayTeam.name ELSE game.homeTeam.name,
            firstScore  |-> IF homeLeads THEN homeScore ELSE awayScore,
            secondScore |-> IF homeLeads THEN awayScore ELSE homeScore]

formatCompletedGame(game) ==
  LET homeScore == parseScore(game.homeTeam.score)
      awayScore == parseScore(game.awayTeam.score)
      homeWins  == homeScore > awayScore
      margin    == IF homeWins THEN homeScore - awayScore ELSE awayScore - homeScore
  IN  [kind |-> "FINAL",
       verb |-> IF margin > 30 THEN "crushed"
                ELSE IF margin > 20 THEN "dominated"
                ELSE IF margin > 10 THEN "defeated"
                ELSE IF margin > 3 THEN "beat" ELSE "edged",
       first  |-> IF homeWins THEN game.homeTeam.name ELSE game.awayTeam.name,
       second |-> IF homeWins THEN game.awayTeam.name ELSE game.homeTeam.name,
       firstScore  |-> IF homeWins THEN homeScore ELSE awayScore,
       secondScore |-> IF homeWins THEN awayScore ELSE homeScore]

formatUpcomingGame(game) ==
  [kind |-> "UPCOMING", first |-> game.awayTeam.name, second |-> game.homeTeam.name]

formatGameResponse(game) ==
  IF game = Null THEN [kind |-> "none"]
  ELSE IF game.status.state = "in" THEN formatLiveGame(game)
  ELSE IF game.status.state = "post" THEN formatCompletedGame(game)
  ELSE IF game.status.state = "pre" THEN formatUpcomingGame(game)
  ELSE [kind |-> "unknown"]

\* the games handed to the formatter
FormatterScores == {Null, Score(0), Score(3), Score(7), Score(21), Score(45)}
FormatterGames ==
  {Null} \cup
  { [status |-> [state |-> st],
     homeTeam |-> [name |-> "Oklahoma", score |-> h],
     awayTeam |-> [name |-> "Texas", score |-> a]] :
      st \in {"in", "post", "pre", "delayed"}, h \in FormatterScores, a \in FormatterScores }

FormatGame(game) ==
  /\ sent' = [game |-> game, text |-> formatGameResponse(game)]
  /\ UNCHANGED <<now, cache, pc, call, ret, setSince, voided, lastGame, calls, got,
                 traditionalCache, req, out>>

NextFormat == \E game \in FormatterGames : FormatGame(game)

SpecFormat == Init /\ [][NextFormat]_vars

-----------------------------------------------------------------------------
(* The cache store on its own: set, get with any maximum age, clear *)

CacheKeys == {<<"k", "1">>, <<"k", "2">>}
CacheData == {[v |-> 1], [v |-> 2]}
MaxAges   == {LIVE_GAME, SCOREBOARD}

CacheTimePoints == {0, 59 * 1000, 60 * 1000, 61 * 1000, SCOREBOARD + 1}

CacheSet(key, data) ==
  /\ cache' = setCache(cache, key, data, now)
  /\ got' = NoGot
  /\ UNCHANGED <<now, pc, call, ret, setSince, voided, lastGame, calls, traditionalCache, sent, req, out>>

\* entry: what the map held for the key when getCached was called
CacheGet(key, maxAge) ==
  /\ got' = [key |-> key, maxAge |-> maxAge, at |-> now,
             entry |-> IF key \in DOMAIN cache THEN cache[key] ELSE Null,
             result |-> getCachedData(cache, key, maxAge, now)]
  /\ cache' = getCachedMap(cache, key, maxAge, now)
  /\ UNCHANGED <<now, pc, call, ret, setSince, voided, lastGame, calls, traditionalCache, sent, req, out>>

NextCache ==
  \/ \E key \in CacheKeys, data \in CacheData : CacheSet(key, data)
  \/ \E key \in CacheKeys, maxAge \in MaxAges : CacheGet(key, maxAge)
  \/ Direct(ClearCache)
  \/ Tick(CacheTimePoints)

SpecCache == Init /\ [][NextCache]_vars

-----------------------------------------------------------------------------
(* The cache keys of requests that differ in case and whitespace *)

KeyTeams  == {<<"o", "u">>, <<" ", "O", "U">>, <<"u", "t">>}
KeySports == {Football, FootballUC, Basketball}
KeyDates  == {<<>>, Day0Str, <<" ">> \o Day0Str}
KeyPolls  == {PollAP, PollAPUC}

NextKey ==
  \/ \E q \in Procs, team \in KeyTeams, sport \in KeySports :
       Direct(getTeamSchedule(q, team, sport, 5, "tool"))
  \/ \E q \in Procs, sport \in KeySports, date \in KeyDates :
       Direct(getScoreboard(q, sport, date))
  \/ \E q \in Procs, sport \in KeySports, poll \in KeyPolls :
       Direct(getRankings(q, sport, poll))
  \/ \E q \in Procs : Direct(FetchFail(q))

SpecKey == Init /\ [][NextKey]_vars

-----------------------------------------------------------------------------
(* Steps, as the properties below speak of them *)

\* a query is called in this step
Started == calls' = calls + 1

\* request q leaves for upstream in this step
Missed(q) == pc[q] = "idle" /\ pc'[q] = "fetching"

\* request q comes back from upstream and returns in this step
Returned(q) == pc[q] = "fetching" /\ pc'[q] = "idle"

\* the cache key of the query called in this step
StartKey ==
  IF \E q \in Procs : Missed(q)
  THEN call'[CHOOSE q \in Procs : Missed(q)].key
  ELSE ret'.key

\* the time to live of each kind of entry, by the key's prefix
TTLOfKey(k) ==
  CASE k[1] = "schedule"   -> 24 * 60 * 60 * 1000
    [] k[1] = "rankings"   -> 24 * 60 * 60 * 1000
    [] k[1] = "scoreboard" -> 5 * 60 * 1000

FreshEntry(k) == k \in DOMAIN cache /\ now - cache[k].timestamp <= TTLOfKey(k)

-----------------------------------------------------------------------------
(* Properties *)

\* C1: when getTeamSchedule, getScoreboard or getRankings is called and the cache
\* holds an entry for the query's key that was stored no longer ago than the
\* query's time to live, the call returns the stored value and goes to no fetch.
C1_FreshEntryServed ==
  [][ Started /\ FreshEntry(StartKey)
        => /\ pc' = pc
           /\ ret'.hit
           /\ ret'.value = cache[StartKey].data ]_vars

\* a schedule served from an entry exactly as old as its time to live
W_C1_ServedAtTTL ==
  /\ ret.hit
  /\ ret.kind = "schedule"
  /\ ret.key \in DOMAIN cache
  /\ now - cache[ret.key].timestamp = 24 * 60 * 60 * 1000

\* C2: getCached(key, maxAge) returns the entry's data exactly when the map holds
\* an entry for the key and the time since it was stored is at most maxAge, and
\* null otherwise; with maxAge 60 s a value stored at t0 is returned at t0 + 59 s
\* and is absent at t0 + 61 s.
C2_GetCachedFreshness ==
  got # NoGot =>
    /\ got.result = IF got.entry # Null /\ got.at - got.entry.timestamp <= got.maxAge
                    THEN got.entry.data
                    ELSE Null
    /\ got.entry # Null /\ got.maxAge = 60 * 1000 =>
         /\ got.at - got.entry.timestamp = 59 * 1000 => got.result = got.entry.data
         /\ got.at - got.entry.timestamp = 61 * 1000 => got.result = Null

\* a value stored under a 60 s maximum age is looked up 61 s later and is absent
W_C2_AbsentAt61s ==
  /\ got # NoGot
  /\ got.entry # Null
  /\ got.maxAge = 60 * 1000
  /\ got.at - got.entry.timestamp = 61 * 1000
  /\ got.result = Null
  /\ got.key \notin DOMAIN cache

C5_NoDedupLastSetWins ==
  [][ /\ ( /\ Started
           /\ \E p \in Procs : InFlight(p) /\ call[p].key = StartKey
           /\ ~FreshEntry(StartKey) )
         => \E q \in Procs : Missed(q) /\ call'[q].key = StartKey
      /\ \A q \in Procs :
           Returned(q) /\ ret'.outcome = "ok" /\ usesCache(ret'.kind)
             => /\ ret'.key \in DOMAIN cache'
                /\ cache'[ret'.key] = [data |-> ret'.value, timestamp |-> now] ]_vars

\* the second of two overlapping queries replaces the first one's different entry
W_C5_SecondSetReplaces ==
  /\ ret.raced
  /\ ret.outcome = "ok"
  /\ ret.prev # Null
  /\ ret.prev # ret.value
  /\ ret.key \in DOMAIN cache
  /\ cache[ret.key].data = ret.value

\* the documented time to live of a current-game result
DocGameTTL(value) ==
  IF value.game.isLive THEN LIVE_GAME
  ELSE IF value.game.isCompleted THEN COMPLETED_GAME
  ELSE DOC_UPCOMING_GAME

\* C6: a getCurrentGame query for the team and sport of the last result goes to
\* upstream only when that result is older than its time to live: 60 s for a
\* game in progress, 86400 s for a completed one, 21600 s for a scheduled one.
C6_CurrentGameCached ==
  [][ \A q \in Procs :
        ( /\ Missed(q)
          /\ call'[q].kind = "game"
          /\ lastGame # NoGame
          /\ lastGame.teamId = call'[q].teamId
          /\ lastGame.sport = call'[q].sport )
        => now - lastGame.at > DocGameTTL(lastGame.value) ]_vars

\* the documented time to live of a scoreboard result
DocScoreboardTTL(value) ==
  IF \E i \in DOMAIN value.games : value.games[i].isLive
  THEN DOC_SCOREBOARD_LIVE
  ELSE DOC_SCOREBOARD_NOLIVE

\* C7: a stored scoreboard is served exactly while it is no older than 60 s if
\* any of its games is live, and no older than 900 s otherwise.
C7_ScoreboardTTLByLiveness ==
  [][ ( /\ Started
        /\ StartKey \in DOMAIN cache
        /\ StartKey[1] = "scoreboard" )
      => ( ret'.hit <=>
             now - cache[StartKey].timestamp <= DocScoreboardTTL(cache[StartKey].data) ) ]_vars

\* trim and lower-case, the normalisation getTeamId applies to a team name
Norm(str) == trim(toLowerCase(str))

\* C8: two queries of the same kind whose parameters differ only in letter case
\* and surrounding whitespace have the same cache key.
C8_KeysNormalised ==
  \A p, q \in Procs :
    ( /\ InFlight(p) /\ InFlight(q)
      /\ call[p].kind = call[q].kind
      /\ Norm(call[p].team) = Norm(call[q].team)
      /\ Norm(call[p].sport) = Norm(call[q].sport)
      /\ Norm(call[p].date) = Norm(call[q].date)
      /\ Norm(call[p].poll) = Norm(call[q].poll) )
    => call[p].key = call[q].key

\* the payload holds no event dated now or later
NoFutureEvents(data, t) ==
  NoEvents(data) \/ \A i \in DOMAIN data.events : data.events[i].date < t

\* C9: a schedule query whose payload holds no future event returns not-found
\* and stores nothing.
C9_NoFutureEventsNotFound ==
  [][ \A q \in Procs :
        ( /\ Returned(q)
          /\ ret'.kind = "schedule"
          /\ ret'.data # Null
          /\ NoFutureEvents(ret'.data, now) )
        => ret'.outcome = "notfound" /\ cache' = cache ]_vars

\* C10: an entry changes only when a query comes back with a result for its key,
\* and then holds exactly that result; a hit returns what the entry holds and
\* leaves the entry as it was, whoever the caller is.
C10_StoredValueImmutable ==
  [][ /\ \A k \in DOMAIN cache' :
           (k \notin DOMAIN cache \/ cache'[k] # cache[k])
             => /\ \E q \in Procs : Returned(q)
                /\ ret'.outcome = "ok"
                /\ ret'.key = k
                /\ cache'[k].data = ret'.value
      /\ Started /\ ret'.hit
           => /\ ret'.value = cache[ret'.key].data
              /\ cache'[ret'.key] = cache[ret'.key] ]_vars

\* a hit right after the REST route's hit on the same key
W_C10_HitAfterRouteHit ==
  /\ ret.hit
  /\ ret.follows = "route"
  /\ ret.key \in DOMAIN cache
  /\ ret.value = cache[ret.key].data

\* steps of the cache store on its own
ReadStep  == got' # NoGot /\ got' # got
ClearStep == DOMAIN cache' = {} /\ got' = got /\ now' = now
SetStep   == got' = NoGot /\ now' = now

\* C11 (as the code has it): a cache read leaves the map as it was unless the
\* entry it looked up is older than maxAge, and then it removes that entry and
\* no other; entries leave the map only through clear or such a read, and an
\* entry changes only by a set for its key.
C11_ReadDropsOnlyExpired ==
  [][ /\ ReadStep =>
           cache' = IF /\ got'.entry # Null
                       /\ got'.at - got'.entry.timestamp > got'.maxAge
                    THEN Without(cache, got'.key)
                    ELSE cache
      /\ \A k \in DOMAIN cache :
           k \notin DOMAIN cache' =>
             \/ ClearStep
             \/ /\ ReadStep
                /\ got'.key = k
                /\ now - cache[k].timestamp > got'.maxAge
      /\ \A k \in DOMAIN cache \cap DOMAIN cache' :
           cache'[k] # cache[k] => SetStep /\ cache'[k].timestamp = now ]_vars

\* a read has removed the expired entry of one key and left the other key's entry
W_C11_ExpiredEntryRemoved ==
  /\ got # NoGot
  /\ got.entry # Null
  /\ got.at = now
  /\ got.at - got.entry.timestamp > got.maxAge
  /\ DOMAIN cache = CacheKeys \ {got.key}

\* C11 (as claimed): a cache read never removes or changes an entry, and entries
\* leave the map only through clear.
C11_ReadLeavesStore ==
  [][ /\ ReadStep => cache' = cache
      /\ \A k \in DOMAIN cache : k \notin DOMAIN cache' => ClearStep ]_vars

-----------------------------------------------------------------------------
(* The get_score tool call of server.js, from the query's return on *)

\* score?.displayValue || score?.value || score, put into the template string
scoreText(score) ==
  IF score = Null THEN "undefined"
  ELSE IF score.value # 0 THEN ToString(score.value)
  ELSE "[object Object]"

\* the string handleGetScore returns: the message of an error object, else the
\* text built from the game
handleGetScore(result) ==
  IF "error" \in DOMAIN result
  THEN <<result.message>>
  ELSE <<result.game.name,
         scoreText(result.game.awayTeam.score),
         scoreText(result.game.homeTeam.score)>>

\* tools/call: what the handler returned goes out as a JSON-RPC result with one
\* text content; only an exception thrown by the handler goes out as an error
toolsCall(text) ==
  [jsonrpc |-> "2.0", result |-> [content |-> <<[type |-> "text", text |-> text]>>]]

\* the kind of a JSON-RPC response: a result, or an error with its code
ResponseKind(response) ==
  IF "error" \in DOMAIN response THEN <<"error", response.error.code>>
  ELSE IF "isError" \in DOMAIN response.result THEN <<"result", "isError">>
  ELSE <<"result", "ok">>

\* the response to the get_score call whose query returned in this state
ScoreResponse == toolsCall(handleGetScore(ret.value))

\* C12: the response to a get_score call whose query found no recent game, and
\* the response to one whose upstream fetch failed, are of different kinds, and
\* neither is an ordinary successful result.
C12_ErrorKindsKeptApart ==
  ret.kind = "game" /\ ret.outcome \in {"notfound", "failed"} =>
    /\ ResponseKind(ScoreResponse) # <<"result", "ok">>
    /\ ret.outcome = "notfound" =>
         ResponseKind(ScoreResponse) #
           ResponseKind(toolsCall(handleGetScore(fetchError("game"))))

C14_CachedValueOnFailure ==
  ( /\ usesCache(ret.kind)
    /\ ret.outcome = "failed"
    /\ ret.data = Null )
  => IF ret.prev # Null
     THEN ret.value = ret.prev
     ELSE "error" \in DOMAIN ret.value

\* the entry the traditional-stats cache holds for the query called in this step
StatsEntry == traditionalCache[StartKey]

\* C15 (as the code has it): a getTraditionalStats call that finds an entry for
\* its (team, year) is served from it exactly while now - timestamp < 21600 s;
\* at exactly 21600 s and later it goes to upstream again.
C15_StatsFreshBelowTTL ==
  [][ ( /\ Started
        /\ StartKey \in DOMAIN traditionalCache
        /\ ret'.outcome # "thrown" )
      => IF now - StatsEntry.timestamp < 6 * 60 * 60 * 1000
         THEN /\ ret'.hit
              /\ ret'.value \in {subsetOf(StatsEntry.data, s) : s \in Subsets}
              /\ pc' = pc
              /\ traditionalCache' = traditionalCache
         ELSE \E q \in Procs : Missed(q) /\ call'[q].key = StartKey ]_vars

\* a stats query is on its way to upstream although the cache holds an entry for
\* its key stored exactly 21600 s ago
W_C15_RefetchAtTTL ==
  \E q \in Procs :
    /\ pc[q] = "fetching"
    /\ call[q].kind = "stats"
    /\ call[q].key \in DOMAIN traditionalCache
    /\ now - traditionalCache[call[q].key].timestamp = 6 * 60 * 60 * 1000

\* C15 (as claimed): the entry is served while now - timestamp <= 21600 s,
\* exactly 21600 s included, and refetched only when older.
C15_StatsFreshUpToTTL ==
  [][ ( /\ Started
        /\ StartKey \in DOMAIN traditionalCache
        /\ ret'.outcome # "thrown" )
      => ( ret'.hit <=> now - StatsEntry.timestamp <= 6 * 60 * 60 * 1000 ) ]_vars

MissingRequired(e) ==
  \/ ~e.displayName
  \/ e.state = "absent"
  \/ e.state \in {"in", "post"} /\ (e.homeScore = Null \/ e.awayScore = Null)

\* the events of the payload that the query of this kind puts into its result
NormalizedEvents(kind, data, t) ==
  IF NoEvents(data) THEN {}
  ELSE IF kind = "scoreboard" THEN {data.events[i] : i \in DOMAIN data.events}
  ELSE IF selectCurrentGame(data.events, t) = Null THEN {}
  ELSE {selectCurrentGame(data.events, t)}

\* C17: when an event that getCurrentGame or getScoreboard puts into its result
\* lacks a team name, a score or the status, the query fails and returns an
\* error object, no result.
C17_MissingFieldFails ==
  ( /\ ret.kind \in {"game", "scoreboard"}
    /\ ret.data # Null
    /\ \E e \in NormalizedEvents(ret.kind, ret.data, now) : MissingRequired(e) )
  => /\ ret.outcome = "failed"
     /\ "error" \in DOMAIN ret.value

\* the number the text gives for the team of that name
ReportedScore(text, name) ==
  IF text.first = name THEN text.firstScore ELSE text.secondScore

LiveEvents(events) == {i \in DOMAIN events : events[i].state = "in"}
RecentCompleted(events, t) ==
  {i \in DOMAIN events :
     /\ events[i].completed
     /\ events[i].date <= t
     /\ t - events[i].date <= 7 * 24 * 60 * 60 * 1000}

\* C19: when the schedule holds games in progress, getCurrentGame returns the
\* first of them in schedule order; when it holds none, it returns a completed
\* game of the last seven days that no other such game is later than; and it
\* returns a game whenever the schedule holds one of either sort and that
\* game's competitors are there.
C19_CurrentGameSelection ==
  ret.kind = "game" /\ ret.data # Null /\ ~NoEvents(ret.data) =>
    LET ev     == ret.data.events
        live   == LiveEvents(ev)
        recent == RecentCompleted(ev, now)
    IN  /\ ret.outcome = "ok" /\ live # {} =>
             /\ ret.value.game.isLive
             /\ \E i \in live :
                  /\ \A j \in live : i <= j
                  /\ ret.value.game.name = ev[i].name
        /\ ret.outcome = "ok" /\ live = {} =>
             /\ ~ret.value.game.isLive
             /\ \E i \in recent :
                  /\ ret.value.game.name = ev[i].name
                  /\ ret.value.game.date = ev[i].date
                  /\ \A j \in recent : ev[j].date <= ev[i].date
        /\ live # {} \/ recent # {} => ret.outcome \in {"ok", "failed"}
        /\ ret.outcome = "failed" =>
             \E i \in live \cup recent : ~ev[i].competitors

\* the completed game returned is not the first recent one of the schedule
W_C19_LatestOfSeveral ==
  /\ ret.kind = "game"
  /\ ret.outcome = "ok"
  /\ ~ret.value.game.isLive
  /\ \E i, j \in RecentCompleted(ret.data.events, now) :
       /\ i < j
       /\ ret.value.game.name = ret.data.events[j].name
       /\ ret.data.events[i].date < ret.data.events[j].date

\* C20: when the schedule holds no game in progress and no completed game of
\* the last seven days, getCurrentGame returns an error object that says no
\* game was found: no game, and not the error a failed fetch gives.
C20_NoGameInWindowNotFound ==
  ( /\ ret.kind = "game"
    /\ ret.data # Null
    /\ ~NoEvents(ret.data)
    /\ LiveEvents(ret.data.events) = {}
    /\ RecentCompleted(ret.data.events, now) = {} )
  => /\ ret.outcome = "notfound"
     /\ "game" \notin DOMAIN ret.value
     /\ ret.value = Err("No recent game found")
     /\ ret.value # fetchError("game")

\* not found although the schedule holds a completed game: it is eight days old
W_C20_CompletedGameTooOld ==
  /\ ret.kind = "game"
  /\ ret.outcome = "notfound"
  /\ ret.data # Null
  /\ ~NoEvents(ret.data)
  /\ \E i \in DOMAIN ret.data.events :
       /\ ret.data.events[i].completed
       /\ now - ret.data.events[i].date = 8 * 24 * 60 * 60 * 1000

-----------------------------------------------------------------------------
(* POST /mcp and POST /clear-cache of server.js *)

Str(s) == [text |-> s]

\* a JSON null, where a field that is absent is Null
JsonNull == [json |-> "null"]

\* process.env.MCP_API_KEY, or the key written in the code when it is not set
apiKey == <<"s", "k">>
Bearer == <<"B", "e", "a", "r", "e", "r", " ">>

startsWith(s, prefix) ==
  Len(s) >= Len(prefix) /\ SubSeq(s, 1, Len(prefix)) = prefix

substring(s, from) == SubSeq(s, from + 1, Len(s))

\* as it would be if any Bearer header were let through
authorizeAnyBearer(authHeader) ==
  IF authHeader = Null \/ ~startsWith(authHeader.text, Bearer) THEN 0 - 32001 ELSE 0

\* the authentication step: the code of the error it answers with, 0 when the
\* request goes on
authorize(authHeader) ==
  IF authHeader = Null \/ authHeader.text = <<>> \/ ~startsWith(authHeader.text, Bearer)
  THEN 0 - 32001
  ELSE IF substring(authHeader.text, 7) # apiKey
  THEN 0 - 32002
  ELSE 0

\* the id of a JSON-RPC message, by its JavaScript type
IdUndefined == [type |-> "undefined"]
IdNull      == [type |-> "null"]
IdNumber(n) == [type |-> "number", n |-> n]
IdString(s) == [type |-> "string", s |-> s]

falsy(id) ==
  id.type \in {"undefined", "null"} \/ id = IdNumber(0) \/ id = IdString("")

\* id || null
orNull(id) == IF falsy(id) THEN IdNull ELSE id

\* res.json of an error and of a result; an id that is undefined is left out of
\* the JSON text
rpcError(code, id) == [jsonrpc |-> "2.0", error |-> [code |-> code], id |-> id]
rpcResult(result, id) == [jsonrpc |-> "2.0", id |-> id, result |-> result]

\* the tools of tools/list whose handlers are modelled here
ToolNames == {"get_score", "get_schedule"}

\* the schema of get_schedule: "Number of games to return (default: 5, max: 20)"
DOC_MAX_LIMIT == 20
DOC_DEFAULT_LIMIT == 5

\* the string handleGetSchedule returns: the message of an error object, else
\* the heading with the team of the result and one entry per game
handleGetSchedule(result) ==
  IF "error" \in DOMAIN result
  THEN [message |-> result.message]
  ELSE [heading |-> result.team, entries |-> result.games]

\* the sport and the limit a handler passes on
sportOf(args) == Football
limitOf(args) == IF args.limit = Null THEN 5 ELSE args.limit.n

\* a handler takes its arguments apart, and the query lower-cases the team,
\* before anything is awaited: a TypeError when either is undefined
handlerThrows(params) == params.arguments = Null \/ params.arguments.team = Null

\* what the handler of a tool returns for the result of its query
handlerText(name, result) ==
  IF name = Str("get_score") THEN handleGetScore(result) ELSE handleGetSchedule(result)

\* the answer to a tools/call whose handler returned
toolResponse(r, result) ==
  rpcResult(toolsCall(handlerText(r.params.name, result)).result, r.id)

Answer(responses) == [sent |-> responses, handler |-> Null]

\* as it would be if the notification were given no response at all
notificationSilent == <<>>

\* res.status(204).send()
notification == <<[status |-> 204]>>

\* POST /mcp up to the first await: the responses sent, and the tool call whose
\* handler is awaited when there is one
postMcp(r) ==
  IF authorize(r.authorization) # 0
  THEN Answer(<<rpcError(authorize(r.authorization), orNull(r.id))>>)
  ELSE IF r.jsonrpc # Str("2.0")
  THEN Answer(<<rpcError(0 - 32600, orNull(r.id))>>)
  ELSE IF r.method = Null
  THEN Answer(<<rpcError(0 - 32600, orNull(r.id))>>)
  ELSE IF r.method = Str("initialize")
  THEN Answer(<<rpcResult([protocolVersion |-> "2024-11-05"], r.id)>>)
  ELSE IF r.method = Str("tools/list")
  THEN Answer(<<rpcResult([tools |-> ToolNames], r.id)>>)
  ELSE IF r.method = Str("tools/call")
  THEN IF r.params = JsonNull
       THEN Answer(<<rpcError(0 - 32603, orNull(r.id))>>)
       ELSE LET params == IF r.params = Null
                          THEN [name |-> Null, arguments |-> Null] ELSE r.params
            IN  IF params.name = Null
                THEN Answer(<<rpcError(0 - 32602, r.id)>>)
                ELSE IF params.name.text \notin ToolNames
                THEN Answer(<<rpcError(0 - 32601, r.id)>>)
                ELSE IF handlerThrows(params)
                THEN Answer(<<rpcError(0 - 32000, r.id)>>)
                ELSE [sent |-> <<>>, handler |-> params]
  ELSE IF r.method = Str("notifications/initialized")
  THEN Answer(notification)
  ELSE Answer(<<rpcError(0 - 32601, r.id)>>)

\* what is kept of a request once it is answered
Out(r, responses, cleared) ==
  [endpoint |-> "/mcp", authorization |-> r.authorization, id |-> r.id,
   sent |-> responses, tool |-> postMcp(r).handler, cleared |-> cleared]

Authorizations ==
  { Null, Str(<<>>), Str(Bearer \o apiKey), Str(Bearer \o <<"x", "x">>),
    Str(<<"b", "e", "a", "r", "e", "r", " ">> \o apiKey) }

Ids == {IdUndefined, IdNull, IdNumber(0), IdString("a")}

Args(team, limit) == [team |-> team, limit |-> limit]

McpParams ==
  { Null, JsonNull,
    [name |-> Null, arguments |-> Null],
    [name |-> Str("get_odds"), arguments |-> Args(Str(<<"o", "u">>), Null)],
    [name |-> Str("get_score"), arguments |-> Null],
    [name |-> Str("get_score"), arguments |-> Args(Null, Null)],
    [name |-> Str("get_score"), arguments |-> Args(Str(<<"o", "u">>), Null)],
    [name |-> Str("get_schedule"), arguments |-> Args(Str(<<"o", "u">>), Null)],
    [name |-> Str("get_schedule"),
     arguments |-> Args(Str(<<" ", "O", "U">>), [n |-> DOC_MAX_LIMIT + 5])] }

McpMethods ==
  { Null, Str("initialize"), Str("tools/list"), Str("tools/call"),
    Str("notifications/initialized"), Str("resources/list") }

\* the requests sent: params only with tools/call
McpRequests ==
  { r \in [authorization : Authorizations, jsonrpc : {Null, Str("2.0")},
           method : McpMethods, params : McpParams, id : Ids] :
      r.method # Str("tools/call") => r.params = Null }

\* those of them that reach a tool handler and are sent with a number or a
\* string for id
ToolCalls ==
  { r \in [authorization : {Str(Bearer \o apiKey)}, jsonrpc : {Str("2.0")},
           method : {Str("tools/call")}, params : McpParams,
           id : {IdNumber(0), IdString("a")}] :
      postMcp(r).handler # Null }

\* a schedule with more upcoming games than the schema allows to ask for
ManyEvents ==
  [i \in 1..(DOC_MAX_LIMIT + 1) |-> [EvNext EXCEPT !.date = DAY + i]]

McpPayloads(kind) ==
  IF kind = "schedule"
  THEN { [events |-> <<EvFinal, EvNext, EvLater>>], [events |-> ManyEvents] }
  ELSE { [events |-> <<EvOld, EvFinal, EvNext>>], [events |-> <<>>] }

\* a request answered before anything is awaited
McpAnswer(r) ==
  /\ calls < MaxAnswers
  /\ postMcp(r).handler = Null
  /\ calls' = calls + 1
  /\ out' = Out(r, postMcp(r).sent, FALSE)
  /\ ret' = NoRet
  /\ UNCHANGED <<now, cache, pc, call, setSince, voided, lastGame, got,
                 traditionalCache, sent, req>>

\* a tools/call that reaches its handler: the query starts, and the response is
\* sent in the same step when the query returns without awaiting a fetch
McpToolCall(q, r) ==
  LET params == postMcp(r).handler
      args == params.arguments
  IN  /\ params # Null
      /\ IF params.name = Str("get_score")
         THEN getCurrentGame(q, args.team.text, sportOf(args))
         ELSE getTeamSchedule(q, args.team.text, sportOf(args), limitOf(args), "tool")
      /\ IF pc'[q] = "idle"
         THEN /\ out' = Out(r, <<toolResponse(r, ret'.value)>>, FALSE)
              /\ req' = req
         ELSE /\ out' = NoOut
              /\ req' = [req EXCEPT ![q] = [request |-> r, cleared |-> FALSE]]

\* the upstream call of a pending tools/call fails or returns, and the handler
\* and POST /mcp run to their end
McpReturn(q) ==
  /\ req[q] # NoReq
  /\ \/ FetchFail(q)
     \/ \E data \in McpPayloads(call[q].kind) : FetchOk(q, data)
  /\ IF pc'[q] = "idle"
     THEN /\ out' = Out(req[q].request, <<toolResponse(req[q].request, ret'.value)>>,
                        req[q].cleared)
          /\ req' = [req EXCEPT ![q] = NoReq]
     ELSE UNCHANGED <<req, out>>

\* POST /clear-cache with the Authorization header it carries; cleared notes, for
\* every tools/call pending, that a clear ran after its fetch started
PostClearCache(authHeader) ==
  /\ ClearCache
  /\ req' = [q \in Procs |->
               IF req[q] = NoReq THEN NoReq ELSE [req[q] EXCEPT !.cleared = TRUE]]
  /\ out' = [endpoint |-> "/clear-cache", authorization |-> authHeader, id |-> IdUndefined,
             sent |-> <<[message |-> "All caches cleared successfully"]>>,
             tool |-> Null, cleared |-> FALSE]

NextMcp ==
  \/ \E r \in McpRequests : McpAnswer(r)
  \/ \E q \in Procs, r \in ToolCalls : McpToolCall(q, r)
  \/ \E q \in Procs : McpReturn(q)
  \/ \E authHeader \in Authorizations : PostClearCache(authHeader)

SpecMcp == Init /\ [][NextMcp]_vars

\* the upstream call of a pending tools/call returns or fails in the end
SpecMcpFair == SpecMcp /\ \A q \in Procs : WF_vars(McpReturn(q))

-----------------------------------------------------------------------------
(* Claims about POST /mcp and POST /clear-cache *)

\* the header is 'Bearer ' followed by the configured key
ValidBearer(h) == h # Null /\ h.text = Bearer \o apiKey
\* the header is there and begins with 'Bearer '
BearerShaped(h) ==
  h # Null /\ Len(h.text) >= Len(Bearer) /\ \A i \in DOMAIN Bearer : h.text[i] = Bearer[i]

ErrorCode(response) ==
  IF "error" \in DOMAIN response THEN response.error.code ELSE 0

\* C21: no tools/call is pending on its handler or on an upstream fetch unless
\* its Authorization header is 'Bearer ' followed by the configured key; and a
\* POST /mcp request without such a header reached no handler and was answered
\* with one error, -32001 when the header is missing or malformed and -32002
\* when the token is wrong, whatever its method, params and id.
C21_NothingWithoutBearerKey ==
  /\ \A q \in Procs :
       req[q] # NoReq => ValidBearer(req[q].request.authorization)
  /\ out.endpoint = "/mcp" /\ ~ValidBearer(out.authorization) =>
       /\ out.tool = Null
       /\ Len(out.sent) = 1
       /\ ErrorCode(out.sent[1]) =
            IF BearerShaped(out.authorization) THEN 0 - 32002 ELSE 0 - 32001

W_C21_WrongTokenRefused ==
  /\ out.endpoint = "/mcp"
  /\ out.authorization = Str(Bearer \o <<"x", "x">>)
  /\ ErrorCode(out.sent[1]) = 0 - 32002

\* C22: POST /clear-cache has cleared a cache entry only when the request
\* carried 'Bearer ' followed by the configured key.
C22_ClearNeedsBearerKey ==
  out.endpoint = "/clear-cache" /\ (\E k \in DOMAIN voided : voided[k] = "cleared") =>
    ValidBearer(out.authorization)

ScheduleAnswered ==
  /\ out.endpoint = "/mcp"
  /\ out.tool # Null
  /\ out.tool.name = Str("get_schedule")
  /\ "result" \in DOMAIN out.sent[1]
  /\ "entries" \in DOMAIN out.sent[1].result.content[1].text
GamesAnswered == out.sent[1].result.content[1].text.entries

\* C24: a get_schedule answer lists at most 20 games whatever limit was asked
\* for, and at most 5 when the call gave no limit.
C24_ScheduleLimitCapped ==
  ScheduleAnswered =>
    /\ Len(GamesAnswered) <= DOC_MAX_LIMIT
    /\ out.tool.arguments.limit = Null => Len(GamesAnswered) <= DOC_DEFAULT_LIMIT

\* what getTeamSchedule returns to the call just answered when it misses the
\* cache and upstream sends data
OnMiss(data) ==
  getTeamScheduleResult([team  |-> out.tool.arguments.team.text,
                         limit |-> limitOf(out.tool.arguments)], data, now).value

\* C25: a get_schedule call answered from the cache gets the games and the team
\* label that the same call gets on a cache miss from some upstream payload.
C25_ScheduleCacheTransparent ==
  ScheduleAnswered /\ ret.hit =>
    \E data \in McpPayloads("schedule") :
      out.sent[1].result.content[1].text = handleGetSchedule(OnMiss(data))

\* C26: a tools/call whose fetch started before a clear of the cache leaves the
\* cache as it is when it returns after that clear.
C26_NoWriteAfterClear ==
  [][\A q \in Procs :
       req[q] # NoReq /\ req[q].cleared /\ req'[q] = NoReq => cache' = cache]_vars

-----------------------------------------------------------------------------
(* Claims about the traditional stats cache *)

\* C27: every entry of the traditional stats cache is stored under the key made
\* of the team and the year that were sent to upstream in the fetch that
\* produced it (year 0: no year was sent).
C27_KeyFromFetchParameters ==
  \A key \in DOMAIN traditionalCache :
    key = makeKey(traditionalCache[key].data.team, traditionalCache[key].data.year)

-----------------------------------------------------------------------------
(* Every POST /mcp request is answered once *)

Pending(q) == req[q] # NoReq

\* C28: a POST /mcp request that has been answered was sent exactly one
\* response, on every path; a tools/call that waits for its handler has been
\* sent none yet, is sent exactly one, with its own id, in the step that ends the
\* wait, and that step comes whenever the upstream call returns or fails.
C28_AnsweredExactlyOnce ==
  /\ [](out.endpoint = "/mcp" => Len(out.sent) = 1)
  /\ [][\A q \in Procs :
          /\ ~Pending(q) /\ Pending(q)' => out' = NoOut
          /\ Pending(q) /\ ~Pending(q)' =>
               /\ out'.endpoint = "/mcp"
               /\ out'.tool = req[q].request.params
               /\ Len(out'.sent) = 1
               /\ out'.sent[1].id = req[q].request.id]_vars
  /\ \A q \in Procs : Pending(q) ~> ~Pending(q)

W_C28_AnsweredAfterFetchFailed ==
  /\ out.endpoint = "/mcp"
  /\ out.tool # Null
  /\ ret.outcome = "failed"
  /\ Len(out.sent) = 1
  /\ "result" \in DOMAIN out.sent[1]

====
